---- MODULE Spec2Model ----
(***************************************************************************)
(* Model of the HTTP request pipeline: the topic bus (Events), the         *)
(* lifecycle events published by the XHR connection (XHRConnection), the   *)
(* plugin dispatch bound by the Http orchestrator (Http.runEvent) and      *)
(* Http.request.                                                           *)
(***************************************************************************)
EXTENDS Integers, Sequences, FiniteSets, TLC

\* ---- bounds of the model ----
MaxLen == 3       \* longest handler list a bus topic may hold in the bus runs
MaxSub == 2       \* most handlers passed to one subscribe call
NumFns == 2       \* number of distinct returning handler functions
MaxPlugins == 2   \* most plugins in the registry
MaxHttp == 2      \* most Http orchestrator instances constructed
MaxBody == 2      \* longest transport body, in tokens
MaxItems == 2     \* longest array in a response document
MaxKeys == 2      \* most keys in a mapper specification

VARIABLES
  channels,   \* Events.channels: topic -> ordered handler list (absent = undefined)
  lastOp,     \* the last bus call made by a client and what it returned
  emptied,    \* topics whose last handler was removed and none subscribed since
  plugins,    \* the plugin registry, in registration order
  stopped,    \* the transient flag set by stop()
  httpCount,  \* number of Http instances constructed over the bus
  conn,       \* one XHRConnection and the subscriber of its response
  types,      \* ModelMultiple.types: type name -> transform class
  mapCall     \* the last transform call made and its outcome

vars == <<channels, lastOp, emptied, plugins, stopped, httpCount, conn, types, mapCall>>

\* ---------------------------------------------------------------------------
\* Values
\* ---------------------------------------------------------------------------

\* A handler is a function identity: kind "fn" returns a value, kind "thrower"
\* raises, kind "runEvent" is the closure subscribed by Http.runEvent for one
\* hook method of one Http instance, kind "unsub" is a closure that calls
\* unsubscribe(topic, target) on the bus it is subscribed to.
Fn(i) == [kind |-> "fn", method |-> "-", id |-> i]
Thrower == [kind |-> "thrower", method |-> "-", id |-> 0]
RunEventHandler(method, n) == [kind |-> "runEvent", method |-> method, id |-> n]
\* () => events.unsubscribe(topic, <this closure>)
UnsubSelf(topic) == [kind |-> "unsub", method |-> topic, id |-> 0]
\* () => events.unsubscribe(topic, Fn(i))
UnsubFn(topic, i) == [kind |-> "unsub", method |-> topic, id |-> i]
\* unsubscribe's default argument: handler = null
NoHandler == [kind |-> "null", method |-> "-", id |-> 0]

BusHandlers == {Fn(i) : i \in 1..NumFns} \cup {Thrower}
BusTopics == {"t1", "t2"}
\* handlers of the runs in which a handler unsubscribes during a publish
ReentrantTopic == "t1"
ReentrantHandlers ==
  {Fn(i) : i \in 1..NumFns} \cup {UnsubSelf(ReentrantTopic), UnsubFn(ReentrantTopic, 1)}
ArgLists == {<<>>, <<"a", "b">>}

\* what handler.apply(null, args) returns: a value that depends on the
\* handler and on the arguments it received
Ret(handler, args) == [of |-> handler.id, n |-> Len(args)]
Undefined == [of |-> 0, n |-> 0]

SeqsUpTo(S, n) == UNION {[1..k -> S] : k \in 0..n}

\* ---------------------------------------------------------------------------
\* Events (topic bus)
\* ---------------------------------------------------------------------------

\* delete this.channels[topic]
deleteTopic(ch, topic) == [t \in DOMAIN ch \ {topic} |-> ch[t]]

\* subscribe(topic, ...handlers): create the list if absent, push each handler
subscribe(ch, topic, handlers) ==
  LET base == IF topic \in DOMAIN ch THEN ch[topic] ELSE <<>>
  IN [t \in DOMAIN ch \cup {topic} |->
        IF t = topic THEN base \o handlers ELSE ch[t]]

\* t.indexOf(handler): 0-based index of the first occurrence, -1 if none
indexOf(t, handler) ==
  IF \E i \in 1..Len(t) : t[i] = handler
  THEN (CHOOSE i \in 1..Len(t) :
          t[i] = handler /\ \A j \in 1..(i-1) : t[j] # handler) - 1
  ELSE -1

\* variant: index of the last occurrence
indexOf_last(t, handler) ==
  IF \E i \in 1..Len(t) : t[i] = handler
  THEN (CHOOSE i \in 1..Len(t) :
          t[i] = handler /\ \A j \in (i+1)..Len(t) : t[j] # handler) - 1
  ELSE -1

\* t.splice(i, 1): the list without its element at 0-based index i
splice(t, i) == [k \in 1..(Len(t)-1) |-> IF k <= i THEN t[k] ELSE t[k+1]]

\* variant: removes the last occurrence instead of the first
unsubscribe_last(ch, topic, handler) ==
  IF topic \notin DOMAIN ch THEN [channels |-> ch, ret |-> FALSE]
  ELSE IF handler = NoHandler
  THEN [channels |-> deleteTopic(ch, topic), ret |-> TRUE]
  ELSE LET t == ch[topic]
           i == indexOf_last(t, handler)
       IN IF i < 0 THEN [channels |-> ch, ret |-> FALSE]
          ELSE LET t2 == splice(t, i)
               IN IF Len(t2) = 0
                  THEN [channels |-> deleteTopic(ch, topic), ret |-> TRUE]
                  ELSE [channels |-> [ch EXCEPT ![topic] = t2], ret |-> TRUE]

\* variant: no `i < 0` test, so splice(-1, 1) drops the last handler
unsubscribe_noCheck(ch, topic, handler) ==
  IF topic \notin DOMAIN ch THEN [channels |-> ch, ret |-> FALSE]
  ELSE IF handler = NoHandler
  THEN [channels |-> deleteTopic(ch, topic), ret |-> TRUE]
  ELSE LET t == ch[topic]
           i == indexOf(t, handler)
           t2 == IF i < 0 THEN SubSeq(t, 1, Len(t) - 1) ELSE splice(t, i)
       IN IF Len(t2) = 0
          THEN [channels |-> deleteTopic(ch, topic), ret |-> TRUE]
          ELSE [channels |-> [ch EXCEPT ![topic] = t2], ret |-> TRUE]

\* unsubscribe(topic, handler = null): the new channels and the value returned
unsubscribe(ch, topic, handler) ==
  IF topic \notin DOMAIN ch THEN [channels |-> ch, ret |-> FALSE]
  ELSE IF handler = NoHandler
  THEN [channels |-> deleteTopic(ch, topic), ret |-> TRUE]
  ELSE LET t == ch[topic]
           i == indexOf(t, handler)
       IN IF i < 0 THEN [channels |-> ch, ret |-> FALSE]
          ELSE LET t2 == splice(t, i)
               IN IF Len(t2) = 0
                  THEN [channels |-> deleteTopic(ch, topic), ret |-> TRUE]
                  ELSE [channels |-> [ch EXCEPT ![topic] = t2], ret |-> TRUE]

\* ---------------------------------------------------------------------------
\* Plugin dispatch (Http.runEvent) and publish
\* ---------------------------------------------------------------------------

PRE_REQUEST == "PRE_REQUEST"
POST_REQUEST == "POST_REQUEST"
POST_REQUEST_SUCCESS == "POST_REQUEST_SUCCESS"
POST_REQUEST_ERROR == "POST_REQUEST_ERROR"

HookMethods == {"preRequest", "postRequest", "postRequestSuccess", "postRequestError"}

NullBody == [kind |-> "null", text |-> <<>>]
NoPayload == [kind |-> "-", status |-> -1, body |-> NullBody]

\* one entry of the observation log of a connection
Published(topic) ==
  [ev |-> "publish", topic |-> topic, plugin |-> 0, val |-> "-", payload |-> NoPayload]
HookCall(method, name, ret, payload) ==
  [ev |-> "hook", topic |-> method, plugin |-> name, val |-> ret, payload |-> payload]
Notified(kind, payload) ==
  [ev |-> kind, topic |-> "-", plugin |-> 0, val |-> "-", payload |-> payload]

\* stop(): raises the transient flag of the event bus
eventsStop(acc) == [acc EXCEPT !.stopped = TRUE]

\* variant: a raised stop flag is honoured by skipping the hook, and is never reset
runEventCallback_sticky(plugin, method, req, acc) ==
  IF method \notin plugin.hooks \/ acc.stopped THEN acc
  ELSE LET stop == plugin.ret
           called == [acc EXCEPT !.hooks = Append(@, HookCall(method, plugin.name, stop, req))]
       IN IF stop = "false" THEN eventsStop(called) ELSE called

\* variant: `stop == false`, which also holds for 0
runEventCallback_looseEq(plugin, method, req, acc) ==
  IF method \notin plugin.hooks THEN acc
  ELSE LET stop == plugin.ret
           called == [acc EXCEPT !.hooks = Append(@, HookCall(method, plugin.name, stop, req))]
       IN IF stop \in {"false", "0"} THEN eventsStop(called) ELSE called

\* the callback runEvent hands to plugins.forEach: skip a plugin without the
\* method, call the hook, call stop() when it returned exactly false
runEventCallback(plugin, method, req, acc) ==
  IF method \notin plugin.hooks THEN acc
  ELSE LET stop == plugin.ret
           called == [acc EXCEPT !.hooks = Append(@, HookCall(method, plugin.name, stop, req))]
       IN IF stop = "false" THEN eventsStop(called) ELSE called

\* Plugins.forEach(fn): fn(plugin) for every plugin in registration order
RECURSIVE pluginsForEach(_, _, _, _, _)
pluginsForEach(pl, i, method, req, acc) ==
  IF i > Len(pl) THEN acc
  ELSE pluginsForEach(pl, i + 1, method, req, runEventCallback(pl[i], method, req, acc))

\* handler.apply(null, args) followed by responses.push(...); acc.channels is
\* this.channels as the running handlers have left it
applyHandler(handler, args, pl, acc) ==
  LET called == [acc EXCEPT !.calls = Append(@, [handler |-> handler, args |-> args])]
  IN CASE handler.kind = "thrower" -> [called EXCEPT !.raised = TRUE]
       [] handler.kind = "runEvent" ->
            LET done == pluginsForEach(pl, 1, handler.method, args[1], called)
            IN [done EXCEPT !.responses = Append(@, Undefined)]
       [] handler.kind = "unsub" ->
            LET target == IF handler.id = 0 THEN handler ELSE Fn(handler.id)
                r == unsubscribe(called.channels, handler.method, target)
            IN [called EXCEPT !.channels = r.channels,
                              !.responses = Append(@, Undefined)]
       [] OTHER -> [called EXCEPT !.responses = Append(@, Ret(handler, args))]

\* the array publish iterates: this.channels[topic], which unsubscribe splices
\* in place (and leaves empty when it deletes the topic)
liveList(acc, topic) ==
  IF topic \in DOMAIN acc.channels THEN acc.channels[topic] ELSE <<>>

\* variant: walks the handler list from its end
forEachHandler_reverse(topic, len, i, args, pl, acc) ==
  LET t == liveList(acc, topic)
      rev == [k \in 1..Len(t) |-> t[Len(t) + 1 - k]]
      F[k \in 0..Len(t)] ==
        IF k = 0 THEN acc
        ELSE IF F[k-1].raised THEN F[k-1] ELSE applyHandler(rev[k], args, pl, F[k-1])
  IN F[Len(t)]

\* variant: an exception raised by a handler is swallowed and the loop goes on
RECURSIVE forEachHandler_catch(_, _, _, _, _, _)
forEachHandler_catch(topic, len, i, args, pl, acc) ==
  IF i > len THEN acc
  ELSE LET t == liveList(acc, topic)
       IN IF i > Len(t)
          THEN forEachHandler_catch(topic, len, i + 1, args, pl, acc)
          ELSE forEachHandler_catch(topic, len, i + 1, args, pl,
                 [applyHandler(t[i], args, pl, acc) EXCEPT !.raised = FALSE])

\* t.forEach(handler => responses.push(handler.apply(null, args))): forEach
\* visits the indices 0..len-1 of the length it found at the start and skips
\* an index the array no longer has; an exception raised by a handler ends
\* the loop
RECURSIVE forEachHandler(_, _, _, _, _, _)
forEachHandler(topic, len, i, args, pl, acc) ==
  IF i > len \/ acc.raised THEN acc
  ELSE LET t == liveList(acc, topic)
       IN IF i > Len(t)
          THEN forEachHandler(topic, len, i + 1, args, pl, acc)
          ELSE forEachHandler(topic, len, i + 1, args, pl,
                 applyHandler(t[i], args, pl, acc))

\* publish(topic, ...args): null for an unknown topic, else the responses
publish(ch, topic, args, pl, st) ==
  LET start == [null |-> FALSE, responses |-> <<>>, calls |-> <<>>,
                raised |-> FALSE, hooks |-> <<>>, stopped |-> st, channels |-> ch]
  IN IF topic \notin DOMAIN ch
     THEN [start EXCEPT !.null = TRUE]
     ELSE forEachHandler(topic, Len(ch[topic]), 1, args, pl, start)

\* ---------------------------------------------------------------------------
\* Mapping: ModelCollection, ModelMultiple
\* ---------------------------------------------------------------------------

Elems == {"e1", "e2"}
\* a JSON value: an array of elements, or a single object
Arr(items) == [kind |-> "array", items |-> items, id |-> "-"]
Obj(e) == [kind |-> "object", items |-> <<>>, id |-> e]
JsonValues == {Arr(items) : items \in SeqsUpTo(Elems, MaxItems)} \cup {Obj(e) : e \in Elems}

\* a Response as the mappers see it: data.json() and what jp.query gives for
\* the path of the rule
Documents == [json : JsonValues, atPath : JsonValues]

\* new this.model(x)
New(x) == [model |-> "M", from |-> x]

\* result = data.json(); if (this.path) result = jp.query(result, this.path)
extract(data, path) == IF path THEN data.atPath ELSE data.json

\* variant: a value that is not an array is mapped as a one-element array
collectionTransform_wrap(data, path) ==
  LET result == extract(data, path)
  IN IF result.kind # "array"
     THEN [error |-> "none", shape |-> "many", models |-> <<New(result)>>]
     ELSE [error |-> "none", shape |-> "many",
           models |-> [i \in 1..Len(result.items) |-> New(Obj(result.items[i]))]]

\* ModelCollection.transform
collectionTransform(data, path) ==
  LET result == extract(data, path)
  IN IF result.kind # "array"
     THEN [error |-> "data", shape |-> "-", models |-> <<>>]
     ELSE [error |-> "none", shape |-> "many",
           models |-> [i \in 1..Len(result.items) |-> New(Obj(result.items[i]))]]

\* ModelSimple.transform: one instance built from the extracted value
simpleTransform(data, path) ==
  [error |-> "none", shape |-> "one", models |-> <<New(extract(data, path))>>]

\* Mapper.create(type, model, path).transform(data)
mapperCreateTransform(type, data, path) ==
  IF type = "ModelCollection" THEN collectionTransform(data, path)
                              ELSE simpleTransform(data, path)

\* new ModelMultiple(mapper): the two built-in types are registered
NewTypes == [t \in {"simple", "collection"} |->
               IF t = "simple" THEN "ModelSimple" ELSE "ModelCollection"]

\* addType(type, model)
addType(ty, type, model) ==
  [t \in DOMAIN ty \cup {type} |-> IF t = type THEN model ELSE ty[t]]

NoResults == [k \in {} |-> <<>>]

\* variant: a rule whose type is not registered is skipped
multipleLoop_skip(ty, rules, i, data, results) ==
  LET F[k \in 0..Len(rules)] ==
        IF k = 0 THEN [error |-> "none", results |-> results]
        ELSE IF F[k-1].error # "none" THEN F[k-1]
        ELSE IF rules[k].type \notin DOMAIN ty THEN F[k-1]
        ELSE LET r == mapperCreateTransform(ty[rules[k].type], data, rules[k].path)
             IN IF r.error # "none" THEN [error |-> r.error, results |-> NoResults]
                ELSE [error |-> "none",
                      results |-> [q \in DOMAIN F[k-1].results \cup {rules[k].key} |->
                                     IF q = rules[k].key THEN r ELSE F[k-1].results[q]]]
  IN F[Len(rules)]

\* the for-in loop of ModelMultiple.transform: a throw ends the call and
\* nothing is returned
RECURSIVE multipleLoop(_, _, _, _, _)
multipleLoop(ty, rules, i, data, results) ==
  IF i > Len(rules) THEN [error |-> "none", results |-> results]
  ELSE IF rules[i].type \notin DOMAIN ty
  THEN [error |-> "type", results |-> NoResults]
  ELSE LET r == mapperCreateTransform(ty[rules[i].type], data, rules[i].path)
       IN IF r.error # "none"
          THEN [error |-> r.error, results |-> NoResults]
          ELSE multipleLoop(ty, rules, i + 1, data,
                 [k \in DOMAIN results \cup {rules[i].key} |->
                    IF k = rules[i].key THEN r ELSE results[k]])

\* ModelMultiple.transform
multipleTransform(ty, rules, data) == multipleLoop(ty, rules, 1, data, NoResults)

TypeNames == {"simple", "collection", "custom"}
Rules == [key : 1..MaxKeys, type : TypeNames, path : BOOLEAN]
\* mapper specifications: rules in key insertion order, one per key
MapperSpecs ==
  {rs \in SeqsUpTo(Rules, MaxKeys) :
     \A i, j \in 1..Len(rs) : i # j => rs[i].key # rs[j].key}

NoDocument == [json |-> Obj("e1"), atPath |-> Obj("e1")]
NoCall == [op |-> "none", data |-> NoDocument, path |-> FALSE, rules |-> <<>>,
           error |-> "none", models |-> <<>>, results |-> NoResults]

\* ---------------------------------------------------------------------------
\* Initial state
\* ---------------------------------------------------------------------------

NoOp == [op |-> "none", topic |-> "-", handlers |-> <<>>, args |-> <<>>,
         ok |-> FALSE, null |-> FALSE, responses |-> <<>>, calls |-> <<>>,
         raised |-> FALSE]

NoResponse == [kind |-> "-", status |-> -1, body |-> NullBody]

\* a connection before Http.request
NewConn == [pc |-> "idle", mapper |-> FALSE, pipeline |-> "-",
            xhr |-> "unsent", xhrStatus |-> -1, xhrBody |-> <<>>,
            loadListener |-> FALSE, errorListener |-> FALSE,
            response |-> NoResponse, ok |-> FALSE, unsubscribed |-> FALSE,
            caught |-> "none", thrown |-> "none", log |-> <<>>]

InitBus ==
  /\ channels = [t \in {} |-> <<>>]
  /\ lastOp = NoOp
  /\ emptied = {}
  /\ plugins = <<>>
  /\ stopped = FALSE
  /\ httpCount = 0
  /\ conn = NewConn
  /\ types = NewTypes
  /\ mapCall = NoCall

\* ---------------------------------------------------------------------------
\* Clients of the bus
\* ---------------------------------------------------------------------------

mapperVars == <<types, mapCall>>

lifecycleVars == <<plugins, stopped, httpCount, conn, mapperVars>>

Subscribe(topic, hs) ==
  /\ Len(IF topic \in DOMAIN channels THEN channels[topic] ELSE <<>>) + Len(hs) <= MaxLen
  /\ channels' = subscribe(channels, topic, hs)
  /\ lastOp' = [NoOp EXCEPT !.op = "subscribe", !.topic = topic, !.handlers = hs]
  /\ emptied' = IF Len(hs) > 0 THEN emptied \ {topic} ELSE emptied
  /\ UNCHANGED lifecycleVars

Unsubscribe(topic, handler) ==
  LET r == unsubscribe(channels, topic, handler)
      wasLast == /\ handler # NoHandler
                 /\ topic \in DOMAIN channels
                 /\ channels[topic] = <<handler>>
  IN /\ channels' = r.channels
     /\ lastOp' = [NoOp EXCEPT !.op = "unsubscribe", !.topic = topic,
                               !.handlers = <<handler>>, !.ok = r.ret]
     /\ emptied' = IF wasLast THEN emptied \cup {topic} ELSE emptied
     /\ UNCHANGED lifecycleVars

\* a client calls publish: an exception leaves it without a return value
Publish(topic, args) ==
  LET r == publish(channels, topic, args, plugins, stopped)
  IN /\ lastOp' = [NoOp EXCEPT !.op = "publish", !.topic = topic, !.args = args,
                               !.null = r.null,
                               !.responses = IF r.raised THEN <<>> ELSE r.responses,
                               !.calls = r.calls, !.raised = r.raised]
     /\ channels' = r.channels
     /\ emptied' = emptied \cup (DOMAIN channels \ DOMAIN r.channels)
     /\ UNCHANGED lifecycleVars

NextBus ==
  \/ \E topic \in BusTopics, hs \in SeqsUpTo(BusHandlers, MaxSub) : Subscribe(topic, hs)
  \/ \E topic \in BusTopics, handler \in BusHandlers \cup {NoHandler} : Unsubscribe(topic, handler)
  \/ \E topic \in BusTopics, args \in ArgLists : Publish(topic, args)

SpecBus == InitBus /\ [][NextBus]_vars

\* clients of one topic whose handlers may unsubscribe while it is published
NextReentrant ==
  \/ \E hs \in SeqsUpTo(ReentrantHandlers, MaxSub) : Subscribe(ReentrantTopic, hs)
  \/ \E handler \in ReentrantHandlers \cup {NoHandler} : Unsubscribe(ReentrantTopic, handler)
  \/ \E args \in ArgLists : Publish(ReentrantTopic, args)

SpecReentrant == InitBus /\ [][NextReentrant]_vars

\* ---------------------------------------------------------------------------
\* Callers of the mappers
\* ---------------------------------------------------------------------------

otherVars == <<channels, lastOp, emptied, plugins, stopped, httpCount, conn>>

\* the transform calls a caller may be about to make: a ModelCollection over
\* a response, or a ModelMultiple built from a mapper specification
PendingCalls ==
  {[NoCall EXCEPT !.op = "collection?", !.data = data, !.path = path] :
     data \in Documents, path \in BOOLEAN}
  \cup
  {[NoCall EXCEPT !.op = "multiple?", !.data = data, !.rules = rules] :
     data \in Documents, rules \in MapperSpecs}

InitMapper ==
  /\ channels = [t \in {} |-> <<>>]
  /\ lastOp = NoOp
  /\ emptied = {}
  /\ plugins = <<>>
  /\ stopped = FALSE
  /\ httpCount = 0
  /\ conn = NewConn
  /\ types = NewTypes
  /\ mapCall \in PendingCalls

AddType(type, model) ==
  /\ mapCall.op = "multiple?"
  /\ types' = addType(types, type, model)
  /\ UNCHANGED <<mapCall, otherVars>>

TransformCollection ==
  /\ mapCall.op = "collection?"
  /\ LET r == collectionTransform(mapCall.data, mapCall.path)
     IN mapCall' = [mapCall EXCEPT !.op = "collection",
                                   !.error = r.error, !.models = r.models]
  /\ UNCHANGED <<types, otherVars>>

TransformMultiple ==
  /\ mapCall.op = "multiple?"
  /\ LET r == multipleTransform(types, mapCall.rules, mapCall.data)
     IN mapCall' = [mapCall EXCEPT !.op = "multiple",
                                   !.error = r.error, !.results = r.results]
  /\ UNCHANGED <<types, otherVars>>

NextMapper ==
  \/ \E model \in {"ModelSimple", "ModelCollection"} : AddType("custom", model)
  \/ TransformCollection
  \/ TransformMultiple

SpecMapper == InitMapper /\ [][NextMapper]_vars

\* ---------------------------------------------------------------------------
\* Request lifecycle: Http, HttpEvents, XHRConnection
\* ---------------------------------------------------------------------------

RetValues == {"false", "undefined", "0", "true"}
HookSets == {HookMethods, {"preRequest", "postRequest"}}
PluginKinds == [hooks : HookSets, ret : RetValues]

\* the registries the application may have been bootstrapped with
PluginConfigs ==
  {[i \in 1..Len(k) |-> [name |-> i, hooks |-> k[i].hooks, ret |-> k[i].ret]] :
     k \in SeqsUpTo(PluginKinds, MaxPlugins)}

\* raw statuses and bodies the transport may report on load
Statuses == {0, 200, 204, 404, 1223}
BodyTokens == {"X", "d"}     \* "X" stands for the XSSI prefix, "d" for other text
Bodies == SeqsUpTo(BodyTokens, MaxBody)
\* what the subscriber's error callback may raise: nothing, an Error object,
\* or a falsy value (throw 0, throw '', throw null)
Raised == {"none", "Error", "falsy"}

ReqPayload == [kind |-> "request", status |-> -1, body |-> NullBody]
ObserverArg == [kind |-> "observer", status |-> -1, body |-> NullBody]

\* events.publish(topic, ...args) seen from a connection: m carries the stop
\* flag and the observation log through the calls of one handler
fire(m, ch, pl, topic, args) ==
  LET r == publish(ch, topic, args, pl, m.stopped)
  IN [stopped |-> r.stopped, log |-> m.log \o <<Published(topic)>> \o r.hooks]

preRequest(m, ch, pl, req, subject) == fire(m, ch, pl, PRE_REQUEST, <<req, subject>>)
postRequest(m, ch, pl, resp) == fire(m, ch, pl, POST_REQUEST, <<resp>>)
postRequestSuccess(m, ch, pl, resp) == fire(m, ch, pl, POST_REQUEST_SUCCESS, <<resp>>)
postRequestError(m, ch, pl, resp) == fire(m, ch, pl, POST_REQUEST_ERROR, <<resp>>)

\* isSuccess(status): the 2xx range
isSuccess(status) == status >= 200 /\ status < 300

\* Http.runEvent(subscribe, method): subscribes the dispatching closure
runEvent(ch, topic, method, n) == subscribe(ch, topic, <<RunEventHandler(method, n)>>)

\* Http constructor: binds the four hooks to the four topics
httpConstructor(ch, n) ==
  runEvent(runEvent(runEvent(runEvent(ch,
      PRE_REQUEST, "preRequest", n),
      POST_REQUEST, "postRequest", n),
      POST_REQUEST_SUCCESS, "postRequestSuccess", n),
      POST_REQUEST_ERROR, "postRequestError", n)

\* Mapper.transform(resp): the mapped result, distinct from the response
mapperTransform(resp) == [resp EXCEPT !.kind = "mapped"]

\* Http.request: which observable the caller gets. responseObservable.map(...)
\* builds a new observable and its result is not kept; responseObservable
\* itself is returned
httpRequest(mapper) ==
  LET responseObservable == "raw"
      mapped == IF mapper THEN "mapped" ELSE responseObservable
  IN responseObservable

\* the value a subscriber of the returned observable receives for a response
delivered(pipeline, response) ==
  IF pipeline = "mapped" THEN mapperTransform(response) ELSE response

\* status = _xhr.status === 1223 ? 204 : _xhr.status
\* variant: no 1223 -> 204 normalization
normalizeStatus_raw(xhrStatus) == xhrStatus
normalizeStatus(xhrStatus) == IF xhrStatus = 1223 THEN 204 ELSE xhrStatus

\* body.replace(XSSI_PREFIX, ''): drops one leading prefix
stripXSSI(text) == IF Len(text) > 0 /\ Head(text) = "X" THEN Tail(text) ELSE text

\* body stays null for 204, else the transport's response without the prefix
loadBody(status, xhrBody) ==
  IF status # 204 THEN [kind |-> "text", text |-> stripXSSI(xhrBody)] ELSE NullBody

\* JavaScript truthiness of a body
truthy(body) == body.kind = "error" \/ (body.kind = "text" /\ body.text # <<>>)

\* if (status === 0) status = body ? 200 : 0
fixStatus(status, body) == IF status = 0 THEN (IF truthy(body) THEN 200 ELSE 0) ELSE status

\* new Response(new ResponseOptions({body, status, ...}))
loadResponse(xhrStatus, xhrBody) ==
  LET status == normalizeStatus(xhrStatus)
      body == loadBody(status, xhrBody)
  IN [kind |-> "response", status |-> fixStatus(status, body), body |-> body]

\* the branch of onLoad taken when response.ok
\* variant: POST_REQUEST published before POST_REQUEST_SUCCESS
onLoadSuccess_postFirst(m, ch, pl, pipeline, response) ==
  LET m1 == postRequest(m, ch, pl, response)
      m2 == postRequestSuccess(m1, ch, pl, response)
  IN [stopped |-> m2.stopped,
      log |-> m2.log \o <<Notified("next", delivered(pipeline, response)),
                          Notified("complete", NoPayload)>>,
      caught |-> "none", thrown |-> "none", pc |-> "done"]

onLoadSuccess(m, ch, pl, pipeline, response) ==
  LET m1 == postRequestSuccess(m, ch, pl, response)
      m2 == postRequest(m1, ch, pl, response)
  IN [stopped |-> m2.stopped,
      log |-> m2.log \o <<Notified("next", delivered(pipeline, response)),
                          Notified("complete", NoPayload)>>,
      caught |-> "none", thrown |-> "none", pc |-> "done"]

\* JavaScript truthiness of the caught value (undefined when nothing was raised)
truthyException(exception) == exception = "Error"

\* variant: the subscriber's error callback runs after the two events
failRequest_notifyLast(m, ch, pl, response, exc) ==
  LET exception == exc
      m1 == postRequestError(m, ch, pl, response)
      m2 == postRequest(m1, ch, pl, response)
  IN [stopped |-> m2.stopped, log |-> Append(m2.log, Notified("error", response)),
      caught |-> exception,
      thrown |-> IF truthyException(exception) THEN exception ELSE "none",
      pc |-> "failed"]

\* the error branch shared by onLoad and onError: responseObserver.error
\* inside try/catch, the two events, then `if (exception) throw exception`
failRequest(m, ch, pl, response, exc) ==
  LET exception == exc
      m0 == [m EXCEPT !.log = Append(@, Notified("error", response))]
      m1 == postRequestError(m0, ch, pl, response)
      m2 == postRequest(m1, ch, pl, response)
  IN [stopped |-> m2.stopped, log |-> m2.log,
      caught |-> exception,
      thrown |-> IF truthyException(exception) THEN exception ELSE "none",
      pc |-> "failed"]

\* variant: classifies on the transport status instead of the normalized one
onLoad_classifyRaw(m, ch, pl, pipeline, xhrStatus, xhrBody, exc) ==
  LET response == loadResponse(xhrStatus, xhrBody)
      ok == isSuccess(xhrStatus)
      r == IF ok THEN onLoadSuccess(m, ch, pl, pipeline, response)
                 ELSE failRequest(m, ch, pl, response, exc)
  IN [r |-> r, response |-> response, ok |-> ok]

\* the load event handler
onLoad(m, ch, pl, pipeline, xhrStatus, xhrBody, exc) ==
  LET response == loadResponse(xhrStatus, xhrBody)
      ok == isSuccess(response.status)
      r == IF ok THEN onLoadSuccess(m, ch, pl, pipeline, response)
                 ELSE failRequest(m, ch, pl, response, exc)
  IN [r |-> r, response |-> response, ok |-> ok]

\* the error event handler: a response of type Error carrying the event
onError(m, ch, pl, xhrStatus, exc) ==
  LET response == [kind |-> "response", status |-> xhrStatus,
                   body |-> [kind |-> "error", text |-> <<>>]]
  IN [r |-> failRequest(m, ch, pl, response, exc), response |-> response, ok |-> FALSE]

\* variant: a teardown that neither detaches the listeners nor aborts
teardown_none(c) == c

\* the function returned to the Observable: detach both listeners, abort
teardown(c) ==
  [c EXCEPT !.loadListener = FALSE, !.errorListener = FALSE, !.xhr = "aborted"]

Init ==
  /\ channels = [t \in {} |-> <<>>]
  /\ lastOp = NoOp
  /\ emptied = {}
  /\ plugins \in PluginConfigs
  /\ stopped = FALSE
  /\ httpCount = 0
  /\ conn = NewConn
  /\ types = NewTypes
  /\ mapCall = NoCall

busVars == <<lastOp, emptied, mapperVars>>

\* new Http(http, events, plugins, requestFactory)
HttpConstructor ==
  /\ httpCount < MaxHttp
  /\ httpCount' = httpCount + 1
  /\ channels' = httpConstructor(channels, httpCount + 1)
  /\ UNCHANGED <<plugins, stopped, conn, busVars>>

\* Http.request(url, params, options, responseOptions)
HttpRequest(mapper) ==
  /\ httpCount >= 1
  /\ conn.pc = "idle"
  /\ conn' = [conn EXCEPT !.pc = "created", !.mapper = mapper,
                          !.pipeline = httpRequest(mapper)]
  /\ UNCHANGED <<channels, plugins, stopped, httpCount, busVars>>

\* the caller subscribes: PRE_REQUEST, listeners attached, request sent
SubscribeResponse ==
  /\ conn.pc = "created"
  /\ LET m == preRequest([stopped |-> stopped, log |-> conn.log], channels, plugins,
                         ReqPayload, ObserverArg)
     IN /\ stopped' = m.stopped
        /\ conn' = [conn EXCEPT !.pc = "sent", !.xhr = "inflight", !.log = m.log,
                                !.loadListener = TRUE, !.errorListener = TRUE]
  /\ UNCHANGED <<channels, plugins, httpCount, busVars>>

\* the transport completes with a load event
Load(xhrStatus, xhrBody, exc) ==
  /\ conn.xhr = "inflight"
  /\ IF conn.loadListener
     THEN LET o == onLoad([stopped |-> stopped, log |-> conn.log], channels, plugins,
                          conn.pipeline, xhrStatus, xhrBody, exc)
          IN /\ stopped' = o.r.stopped
             /\ conn' = [conn EXCEPT !.xhr = "load", !.xhrStatus = xhrStatus,
                                     !.xhrBody = xhrBody, !.response = o.response,
                                     !.ok = o.ok, !.log = o.r.log, !.pc = o.r.pc,
                                     !.caught = o.r.caught, !.thrown = o.r.thrown]
     ELSE /\ conn' = [conn EXCEPT !.xhr = "load", !.xhrStatus = xhrStatus,
                                  !.xhrBody = xhrBody]
          /\ UNCHANGED stopped
  /\ UNCHANGED <<channels, plugins, httpCount, busVars>>

\* the transport fails with an error event
Error(exc) ==
  /\ conn.xhr = "inflight"
  /\ IF conn.errorListener
     THEN LET o == onError([stopped |-> stopped, log |-> conn.log], channels, plugins,
                           0, exc)
          IN /\ stopped' = o.r.stopped
             /\ conn' = [conn EXCEPT !.xhr = "error", !.xhrStatus = 0,
                                     !.response = o.response,
                                     !.ok = o.ok, !.log = o.r.log, !.pc = o.r.pc,
                                     !.caught = o.r.caught, !.thrown = o.r.thrown]
     ELSE /\ conn' = [conn EXCEPT !.xhr = "error", !.xhrStatus = 0]
          /\ UNCHANGED stopped
  /\ UNCHANGED <<channels, plugins, httpCount, busVars>>

\* the caller unsubscribes before the transport completed
Teardown ==
  /\ conn.pc = "sent"
  /\ conn' = [teardown(conn) EXCEPT !.pc = "cancelled", !.unsubscribed = TRUE]
  /\ UNCHANGED <<channels, plugins, stopped, httpCount, busVars>>

Next ==
  \/ HttpConstructor
  \/ \E mapper \in BOOLEAN : HttpRequest(mapper)
  \/ SubscribeResponse
  \/ \E xhrStatus \in Statuses, xhrBody \in Bodies, exc \in Raised :
       Load(xhrStatus, xhrBody, exc)
  \/ \E exc \in Raised : Error(exc)
  \/ Teardown

Spec == Init /\ [][Next]_vars

\* ---------------------------------------------------------------------------
\* Reading the observation log
\* ---------------------------------------------------------------------------

\* the topics published for the connection, in order
PublishedTopics(log) ==
  LET sel == SelectSeq(log, LAMBDA e : e.ev = "publish")
  IN [i \in 1..Len(sel) |-> sel[i].topic]

\* what the subscriber was told, in order
Notifications(log) == SelectSeq(log, LAMBDA e : e.ev \in {"next", "complete", "error"})

InSeq(x, s) == \E i \in 1..Len(s) : s[i] = x

\* position of the first entry of the given kind, 0 if none
FirstPos(log, P(_)) ==
  IF \E i \in 1..Len(log) : P(log[i])
  THEN CHOOSE i \in 1..Len(log) : P(log[i]) /\ \A j \in 1..(i-1) : ~P(log[j])
  ELSE 0

\* entries i < j of the log belong to the same firing of one event
SameFiring(log, i, j) == \A k \in (i+1)..j : log[k].ev = "hook"

HookOf(topic) ==
  CASE topic = PRE_REQUEST -> "preRequest"
    [] topic = POST_REQUEST -> "postRequest"
    [] topic = POST_REQUEST_SUCCESS -> "postRequestSuccess"
    [] topic = POST_REQUEST_ERROR -> "postRequestError"

Completed == conn.xhr \in {"load", "error"}

\* ---------------------------------------------------------------------------
\* Properties of the request lifecycle (Spec)
\* ---------------------------------------------------------------------------

C2_FalseStopsLaterPlugins ==
  \A k \in 1..Len(conn.log) :
    conn.log[k].ev = "publish" =>
      \A p \in 1..Len(plugins) :
        HookOf(conn.log[k].topic) \in plugins[p].hooks =>
          LET method == HookOf(conn.log[k].topic)
              invoked == \E j \in (k+1)..Len(conn.log) :
                           /\ SameFiring(conn.log, k, j)
                           /\ conn.log[j].plugin = p
              stoppedBefore == \E q \in 1..(p-1) :
                                 /\ method \in plugins[q].hooks
                                 /\ plugins[q].ret = "false"
          IN invoked <=> ~stoppedBefore

\* C5: after a load, a response whose normalized status is a success status
\* had POST_REQUEST_SUCCESS published and was delivered as next then complete;
\* any other response had POST_REQUEST_ERROR published and was delivered, whole,
\* to the error callback. Never both outcome events, never a value and an error.
C5_LoadClassification ==
  LET pubs == PublishedTopics(conn.log)
      notes == Notifications(conn.log)
  IN /\ conn.xhr = "load" =>
          IF isSuccess(conn.response.status)
          THEN /\ InSeq(POST_REQUEST_SUCCESS, pubs)
               /\ Len(notes) = 2
               /\ notes[1].ev = "next"
               /\ notes[1].payload.status = conn.response.status
               /\ notes[1].payload.body = conn.response.body
               /\ notes[2].ev = "complete"
          ELSE /\ InSeq(POST_REQUEST_ERROR, pubs)
               /\ notes = <<Notified("error", conn.response)>>
     /\ ~(InSeq(POST_REQUEST_SUCCESS, pubs) /\ InSeq(POST_REQUEST_ERROR, pubs))
     /\ ~(\E i, j \in 1..Len(notes) : notes[i].ev = "next" /\ notes[j].ev = "error")

C5_Witness ==
  /\ conn.xhr = "load"
  /\ conn.response.status = 404
  /\ conn.response.body.kind = "text" /\ conn.response.body.text # <<>>
  /\ Notifications(conn.log) = <<Notified("error", conn.response)>>

\* C6 (as claimed): whenever the error callback raised in the error branch,
\* the error notification is followed by POST_REQUEST_ERROR and POST_REQUEST,
\* and the handler then re-raises the very value it caught.
C6_CaughtIsRethrown ==
  (conn.pc = "failed" /\ conn.caught # "none") =>
     LET log == conn.log
         e == FirstPos(log, LAMBDA x : x.ev = "error")
         pe == FirstPos(log, LAMBDA x : x.ev = "publish" /\ x.topic = POST_REQUEST_ERROR)
         pp == FirstPos(log, LAMBDA x : x.ev = "publish" /\ x.topic = POST_REQUEST)
     IN /\ 0 < e /\ e < pe /\ pe < pp
        /\ conn.thrown = conn.caught

\* C7: once the caller has unsubscribed before completion, both listeners are
\* detached, the transport is aborted, and none of POST_REQUEST_SUCCESS,
\* POST_REQUEST_ERROR, POST_REQUEST is ever published for the request.
C7_UnsubscribeSilences ==
  conn.unsubscribed =>
    /\ ~conn.loadListener /\ ~conn.errorListener
    /\ conn.xhr = "aborted"
    /\ \A i \in 1..Len(conn.log) :
         conn.log[i].ev = "publish" => conn.log[i].topic = PRE_REQUEST

C7_Witness ==
  /\ conn.unsubscribed
  /\ PublishedTopics(conn.log) = <<PRE_REQUEST>>
  /\ \E i \in 1..Len(conn.log) : conn.log[i].ev = "hook"

\* C8 (as claimed): the value the caller of Http.request observes on success
\* is the mapper's transform of the response when a Mapper was given, the raw
\* response otherwise; on failure it is an error carrying the full response.
C8_CallerObservesMapped ==
  LET notes == Notifications(conn.log)
  IN \A i \in 1..Len(notes) :
       /\ notes[i].ev = "next" =>
            notes[i].payload = IF conn.mapper THEN mapperTransform(conn.response)
                                              ELSE conn.response
       /\ notes[i].ev = "error" => notes[i].payload = conn.response

\* C9: after a load, raw status 1223 gives status 204 with a null body; status
\* 204 always has a null body; raw status 0 gives 200 when the response body is
\* non-empty and 0 otherwise; any other raw status is reported unchanged; and
\* the success event is published exactly for a normalized success status.
C9_StatusNormalization ==
  conn.xhr = "load" =>
    LET raw == conn.xhrStatus
        resp == conn.response
        pubs == PublishedTopics(conn.log)
    IN /\ raw = 1223 => (resp.status = 204 /\ resp.body = NullBody)
       /\ resp.status = 204 => resp.body = NullBody
       /\ raw = 0 => resp.status = (IF resp.body.text # <<>> THEN 200 ELSE 0)
       /\ raw \notin {0, 1223} => resp.status = raw
       /\ InSeq(POST_REQUEST_SUCCESS, pubs) <=> (resp.status >= 200 /\ resp.status < 300)
       /\ InSeq(POST_REQUEST_ERROR, pubs) <=> ~(resp.status >= 200 /\ resp.status < 300)

C9_Witness ==
  /\ conn.xhr = "load"
  /\ conn.xhrStatus = 1223
  /\ conn.xhrBody # <<>>
  /\ conn.response.status = 204
  /\ InSeq(POST_REQUEST_SUCCESS, PublishedTopics(conn.log))

\* ---------------------------------------------------------------------------
\* Properties of the topic bus (SpecBus)
\* ---------------------------------------------------------------------------

\* C3: subscribe appends its handlers, in order, to the topic's list; and a
\* publish to a topic holding N >= 1 returning handlers invokes the N handlers
\* in list order (one call per occurrence), each with the published argument
\* list, and returns exactly their N return values in that order.
C3_PublishInvokesAllInOrder ==
  [][ /\ lastOp'.op = "subscribe" =>
           channels'[lastOp'.topic] =
             (IF lastOp'.topic \in DOMAIN channels THEN channels[lastOp'.topic] ELSE <<>>)
               \o lastOp'.handlers
      /\ ( /\ lastOp'.op = "publish"
           /\ lastOp'.topic \in DOMAIN channels
           /\ Len(channels[lastOp'.topic]) >= 1
           /\ \A i \in 1..Len(channels[lastOp'.topic]) :
                channels[lastOp'.topic][i].kind = "fn" )
         => LET t == channels[lastOp'.topic]
            IN /\ ~lastOp'.raised /\ ~lastOp'.null
               /\ lastOp'.calls =
                    [i \in 1..Len(t) |-> [handler |-> t[i], args |-> lastOp'.args]]
               /\ lastOp'.responses = [i \in 1..Len(t) |-> Ret(t[i], lastOp'.args)]
    ]_vars

C3_Witness ==
  /\ lastOp.op = "publish"
  /\ lastOp.args = <<"a", "b">>
  /\ Len(lastOp.responses) = 3
  /\ lastOp.responses[1] = lastOp.responses[3]
  /\ lastOp.responses[1] # lastOp.responses[2]

\* C4 (as claimed): a topic whose last handler was removed by
\* unsubscribe(topic, handler), and to which no handler has been subscribed
\* since, is absent from the bus and every publish to it returns null.
C4_EmptiedTopicPublishesNull ==
  \A topic \in emptied :
    /\ topic \notin DOMAIN channels
    /\ \A args \in ArgLists : publish(channels, topic, args, plugins, stopped).null

\* C10: unsubscribe(topic, handler) with the handler on the topic's list leaves
\* that list without its first occurrence of the handler and otherwise as it
\* was, leaves every other topic as it was, and returns true.
C10_UnsubscribeRemovesFirst ==
  [][ ( /\ lastOp'.op = "unsubscribe"
        /\ lastOp'.handlers # <<NoHandler>>
        /\ lastOp'.topic \in DOMAIN channels
        /\ InSeq(lastOp'.handlers[1], channels[lastOp'.topic]) )
      => LET topic == lastOp'.topic
             t == channels[topic]
             first == CHOOSE i \in 1..Len(t) :
                        t[i] = lastOp'.handlers[1] /\ \A j \in 1..(i-1) : t[j] # t[i]
             after == IF topic \in DOMAIN channels' THEN channels'[topic] ELSE <<>>
         IN /\ after = SubSeq(t, 1, first - 1) \o SubSeq(t, first + 1, Len(t))
            /\ \A other \in BusTopics \ {topic} :
                 /\ other \in DOMAIN channels <=> other \in DOMAIN channels'
                 /\ other \in DOMAIN channels => channels'[other] = channels[other]
            /\ lastOp'.ok = TRUE
    ]_vars

C10_Witness ==
  /\ lastOp.op = "unsubscribe"
  /\ lastOp.ok
  /\ lastOp.topic \in DOMAIN channels
  /\ Len(channels[lastOp.topic]) = 2
  /\ channels[lastOp.topic][2] = lastOp.handlers[1]
  /\ channels[lastOp.topic][1] # lastOp.handlers[1]
  /\ \E other \in BusTopics \ {lastOp.topic} : other \in DOMAIN channels

\* C11: unsubscribe on a topic the bus does not hold, or with a handler that
\* is not on the topic's list, returns false and changes nothing on the bus;
\* unsubscribe(topic) without a handler on a topic the bus holds removes the
\* topic with all its handlers, leaves the other topics alone, and returns true.
C11_UnsubscribeNotFound ==
  [][ lastOp'.op = "unsubscribe" =>
        LET topic == lastOp'.topic
            handler == lastOp'.handlers[1]
        IN /\ ( \/ topic \notin DOMAIN channels
                \/ (handler # NoHandler /\ ~InSeq(handler, channels[topic])) )
              => (lastOp'.ok = FALSE /\ channels' = channels)
           /\ (handler = NoHandler /\ topic \in DOMAIN channels)
              => /\ lastOp'.ok = TRUE
                 /\ topic \notin DOMAIN channels'
                 /\ DOMAIN channels' = DOMAIN channels \ {topic}
                 /\ \A other \in DOMAIN channels' : channels'[other] = channels[other]
    ]_vars

C11_Witness ==
  /\ lastOp.op = "unsubscribe"
  /\ ~lastOp.ok
  /\ lastOp.handlers # <<NoHandler>>
  /\ lastOp.topic \in DOMAIN channels
  /\ Len(channels[lastOp.topic]) = 2

\* C17 (as claimed): in every state reached by subscribe and unsubscribe calls,
\* publish(topic) returns null exactly when the topic has no handlers, and a
\* non-empty sequence of return values when it has some.
C17_NullIffNoHandlers ==
  \A topic \in BusTopics, args \in ArgLists :
    LET r == publish(channels, topic, args, plugins, stopped)
        none == topic \notin DOMAIN channels \/ Len(channels[topic]) = 0
    IN /\ r.null <=> none
       /\ (~none /\ ~r.raised) => (~r.null /\ Len(r.responses) >= 1)

\* position of the first handler of the list that raises
FirstThrower(t) ==
  CHOOSE i \in 1..Len(t) : t[i] = Thrower /\ \A j \in 1..(i-1) : t[j] # Thrower

\* C18: when a handler of the published topic raises, the exception reaches
\* the caller of publish, the handlers before it and the raising handler are
\* the only ones invoked, no result sequence is returned, and the handler
\* lists of the bus are as they were.
C18_RaisePropagates ==
  [][ ( /\ lastOp'.op = "publish"
        /\ lastOp'.topic \in DOMAIN channels
        /\ InSeq(Thrower, channels[lastOp'.topic]) )
      => LET t == channels[lastOp'.topic]
             k == FirstThrower(t)
         IN /\ lastOp'.raised
            /\ lastOp'.calls = [i \in 1..k |-> [handler |-> t[i], args |-> lastOp'.args]]
            /\ ~lastOp'.null /\ lastOp'.responses = <<>>
            /\ channels' = channels
    ]_vars

C18_Witness ==
  /\ lastOp.op = "publish"
  /\ lastOp.raised
  /\ lastOp.topic \in DOMAIN channels
  /\ channels[lastOp.topic] = <<Fn(1), Thrower, Fn(2)>>
  /\ Len(lastOp.calls) = 2

\* number of positions of the sequence at which P holds
CountIn(seq, P(_)) == Cardinality({i \in 1..Len(seq) : P(seq[i])})

\* C19 (as claimed): in a publish whose handlers unsubscribe themselves or
\* another handler of the topic, every handler that was subscribed when the
\* publish began and has not been unsubscribed is invoked exactly once (once
\* for each time it is subscribed).
C19_ReentrantUnsubscribeSkipsNone ==
  [][ ( /\ lastOp'.op = "publish"
        /\ lastOp'.topic \in DOMAIN channels )
      => LET t == channels[lastOp'.topic]
             after == IF lastOp'.topic \in DOMAIN channels'
                      THEN channels'[lastOp'.topic] ELSE <<>>
         IN \A i \in 1..Len(t) :
              CountIn(after, LAMBDA h : h = t[i]) = CountIn(t, LAMBDA h : h = t[i])
              => CountIn(lastOp'.calls, LAMBDA c : c.handler = t[i])
                   = CountIn(t, LAMBDA h : h = t[i])
    ]_vars

\* ---------------------------------------------------------------------------
\* Properties of plugin dispatch (Spec)
\* ---------------------------------------------------------------------------

LifecycleTopics == {PRE_REQUEST, POST_REQUEST, POST_REQUEST_SUCCESS, POST_REQUEST_ERROR}

\* names of the registered plugins that implement the method, in registration order
Implementing(method) ==
  LET sel == SelectSeq(plugins, LAMBDA p : method \in p.hooks)
  IN [i \in 1..Len(sel) |-> sel[i].name]

\* number of hook calls made in the firing whose publish entry is log[k]
FiringLen(log, k) ==
  CHOOSE n \in 0..(Len(log) - k) :
    /\ SameFiring(log, k, k + n)
    /\ (k + n = Len(log) \/ log[k + n + 1].ev # "hook")

\* the plugins whose hook was called in that firing, in call order
FiringPlugins(log, k) == [i \in 1..FiringLen(log, k) |-> log[k + i].plugin]

FalseInFiring(log, k) == \E i \in 1..FiringLen(log, k) : log[k + i].val = "false"

\* s repeated n times
Repeat(s, n) == [i \in 1..(n * Len(s)) |-> s[((i - 1) % Len(s)) + 1]]

C15_OnlyFalseStops ==
  /\ stopped => \E j \in 1..Len(conn.log) :
                  conn.log[j].ev = "hook" /\ conn.log[j].val = "false"
  /\ \A k \in 1..Len(conn.log) :
       (conn.log[k].ev = "publish" /\ ~FalseInFiring(conn.log, k))
       => \E n \in 1..httpCount :
            FiringPlugins(conn.log, k) = Repeat(Implementing(HookOf(conn.log[k].topic)), n)

C15_Witness ==
  /\ ~stopped
  /\ \E k \in 1..Len(conn.log) :
       /\ conn.log[k].ev = "publish" /\ conn.log[k].topic = POST_REQUEST_ERROR
       /\ FiringLen(conn.log, k) = 2
       /\ conn.log[k + 1].val = "0" /\ conn.log[k + 1].plugin = 1
       /\ conn.log[k + 2].val = "undefined" /\ conn.log[k + 2].plugin = 2

\* C16 (as claimed): in every firing without an early stop, each registered
\* plugin that implements the hook has it called exactly once, in registration
\* order, all with the same payload, however many Http instances exist.
C16_EachHookOncePerFiring ==
  \A k \in 1..Len(conn.log) :
    (conn.log[k].ev = "publish" /\ ~FalseInFiring(conn.log, k))
    => /\ FiringPlugins(conn.log, k) = Implementing(HookOf(conn.log[k].topic))
       /\ \A i, j \in 1..FiringLen(conn.log, k) :
            conn.log[k + i].payload = conn.log[k + j].payload

\* C20: on a successful load the subscriber is given the response (next, then
\* complete) only after POST_REQUEST_SUCCESS and POST_REQUEST have both been
\* published; on a failed load and on a transport error the subscriber's error
\* callback is called before POST_REQUEST_ERROR and POST_REQUEST are published.
C20_NotificationOrder ==
  LET log == conn.log
      posPub(topic) == FirstPos(log, LAMBDA e : e.ev = "publish" /\ e.topic = topic)
      posNote(kind) == FirstPos(log, LAMBDA e : e.ev = kind)
  IN /\ (conn.xhr = "load" /\ conn.ok) =>
          /\ posNote("next") > 0
          /\ posNote("error") = 0
     /\ posNote("next") > 0 =>
          /\ posPub(POST_REQUEST_SUCCESS) > 0
          /\ posPub(POST_REQUEST_SUCCESS) < posPub(POST_REQUEST)
          /\ posPub(POST_REQUEST) < posNote("next")
          /\ posNote("complete") = posNote("next") + 1
          /\ posNote("complete") = Len(log)
     /\ (Completed /\ ~conn.ok) =>
          /\ posNote("error") > 0
          /\ posNote("next") = 0 /\ posNote("complete") = 0
     /\ posNote("error") > 0 =>
          /\ posPub(POST_REQUEST_ERROR) > posNote("error")
          /\ posPub(POST_REQUEST) > posPub(POST_REQUEST_ERROR)
     /\ (posPub(POST_REQUEST_ERROR) > 0 \/ (posPub(POST_REQUEST) > 0 /\ ~conn.ok))
          => posNote("error") > 0

C20_Witness ==
  /\ conn.xhr = "load" /\ ~conn.ok
  /\ \E i, j, k \in 1..Len(conn.log) :
       /\ i < j /\ j < k
       /\ conn.log[i].ev = "error"
       /\ conn.log[j].ev = "hook" /\ conn.log[j].topic = "postRequestError"
       /\ conn.log[k].ev = "hook" /\ conn.log[k].topic = "postRequest"

\* ---------------------------------------------------------------------------
\* Properties of the mappers (SpecMapper)
\* ---------------------------------------------------------------------------

\* C12: ModelCollection.transform over an extracted value that is an array of
\* n elements returns n instances, the i-th built from the i-th element; over
\* a value that is not an array it fails and returns nothing.
C12_CollectionMapsInOrder ==
  mapCall.op = "collection" =>
    LET value == IF mapCall.path THEN mapCall.data.atPath ELSE mapCall.data.json
    IN IF value.kind = "array"
       THEN /\ mapCall.error = "none"
            /\ Len(mapCall.models) = Len(value.items)
            /\ \A i \in 1..Len(value.items) :
                 mapCall.models[i] = New(Obj(value.items[i]))
       ELSE /\ mapCall.error # "none"
            /\ mapCall.models = <<>>

C12_Witness ==
  /\ mapCall.op = "collection"
  /\ mapCall.path
  /\ mapCall.data.json.kind = "object"
  /\ Len(mapCall.models) = 2
  /\ mapCall.models[1] # mapCall.models[2]

RuleKeys(rules) == {rules[i].key : i \in 1..Len(rules)}
AllRegistered(rules) == \A i \in 1..Len(rules) : rules[i].type \in DOMAIN types

\* C13 (as claimed): a specification whose rules all name a registered type
\* gives a result with exactly the specification's keys; a rule naming an
\* unregistered type makes the call fail with no result.
C13_RegisteredGivesAllKeys ==
  mapCall.op = "multiple" =>
    IF AllRegistered(mapCall.rules)
    THEN mapCall.error = "none" /\ DOMAIN mapCall.results = RuleKeys(mapCall.rules)
    ELSE mapCall.error # "none" /\ mapCall.results = NoResults

\* a rule of the call whose mapper is a ModelCollection and whose extracted
\* value is not an array
DataErrorIn(rules, data) ==
  \E i \in 1..Len(rules) :
    /\ rules[i].type \in DOMAIN types
    /\ types[rules[i].type] = "ModelCollection"
    /\ (IF rules[i].path THEN data.atPath ELSE data.json).kind # "array"

\* C13 (amended): a specification whose rules all name a registered type
\* gives a result with exactly the specification's keys, unless the transform
\* of one of its rules fails (a collection rule over a value that is not an
\* array), in which case the call fails with no result; a rule naming an
\* unregistered type makes the call fail with no result.
C13_RegisteredGivesAllKeysOrDataError ==
  mapCall.op = "multiple" =>
    IF AllRegistered(mapCall.rules)
    THEN IF DataErrorIn(mapCall.rules, mapCall.data)
         THEN mapCall.error = "data" /\ mapCall.results = NoResults
         ELSE mapCall.error = "none" /\ DOMAIN mapCall.results = RuleKeys(mapCall.rules)
    ELSE mapCall.error # "none" /\ mapCall.results = NoResults

C13_Witness ==
  /\ mapCall.op = "multiple"
  /\ Len(mapCall.rules) = 2
  /\ mapCall.rules[1].type = "simple"
  /\ mapCall.rules[2].type = "custom"
  /\ "custom" \notin DOMAIN types
  /\ mapCall.error = "type"
  /\ mapCall.results = NoResults

====
